---- MODULE Spec2Model ----
(***************************************************************************)
(* Offline-first change tracking of postboy: the pending change queue      *)
(* (crates/models/src/sync.rs, PendingChanges), the change records it      *)
(* holds (SyncChange) and the callers that share one queue: mutators that  *)
(* push the records of entity mutations and a syncer that drains the       *)
(* queue, marks records synced and removes the synced ones.                *)
(*                                                                         *)
(* Every method of PendingChanges that changes the queue takes &mut self,  *)
(* so callers sharing one queue are serialised by the borrow (or by the    *)
(* lock that hands out the borrow): a call is one step of the model, and   *)
(* concurrency is the interleaving of the callers' calls.                  *)
(***************************************************************************)
EXTENDS Integers, Sequences, FiniteSets, TLC

\* ---------------------------------------------------------------- bounds

\* Largest max_size a queue is constructed with (PendingChanges::new(0..MaxCapacity)).
MaxCapacity == 2

\* Number of change records created (and pushed) in one behaviour.
MaxChanges == 3

\* Largest reading of the clock behind now().
MaxClock == 2

\* Versions handed to SyncChange::update and SyncChange::delete (create gives 1).
Versions == {2}

\* Payloads handed to SyncChange::create and SyncChange::update.
Payloads == {"p"}

\* The callers of push.
Mutators == {"m1", "m2"}

\* The caller of drain, mark_synced and remove_synced.
Syncer == "syncer"

\* ------------------------------------------------------------ data types

\* enum SyncItemType
SyncItemType == {"Collection", "Folder", "Request", "Environment"}

\* The items the mutators change, as (item_type, item_id): two items of one
\* type, and two items of different types that share an id.
Items == {<<"Collection", 1>>, <<"Request", 1>>, <<"Request", 2>>}

\* enum SyncOperation
SyncOperation == {"Create", "Update", "Delete"}

\* serde_json::Value::Null
Null == "null"

VARIABLES
    changes,    \* PendingChanges.changes: Vec<SyncChange>
    max_size,   \* PendingChanges.max_size
    next_id,    \* the next value new_id() returns
    clock,      \* the value now() returns
    call,       \* the last call made on the queue, with the queue before it
    last_ok,    \* history: per item, the change id of the last push that returned Ok
    ok_ids,     \* history: the change ids whose push returned Ok
    superseded, \* history: the change ids a successful push for the same item replaced
    delivered,  \* history: per change id, the number of drains that returned it
    removed,    \* history: the change ids deleted by remove_synced
    session,    \* the SyncSession under observation, None before SyncSession::new
    config,     \* the SyncConfig under observation, None before it is constructed
    reply,      \* the last call of a function that changes no state: name, input, output
    run,        \* the position of the sync run that drives the session
    sync_state  \* Collection.sync_state of the collection under observation

vars == <<changes, max_size, next_id, clock, call,
          last_ok, ok_ids, superseded, delivered, removed,
          session, config, reply, run, sync_state>>

hist == <<last_ok, ok_ids, superseded, delivered, removed>>

\* The state outside the pending queue.
others == <<session, config, reply, run, sync_state>>

\* Option<T>: None, Some(x).
None == << >>

Some(x) == <<x>>

\* fn new_id()
new_id == next_id

\* fn now()
now == clock

\* SyncChange::create
SyncChange_create(item_type, item_id, data) ==
    [change_id |-> new_id,
     item_type |-> item_type,
     item_id   |-> item_id,
     operation |-> "Create",
     version   |-> 1,
     data      |-> data,
     timestamp |-> now,
     synced    |-> FALSE]

\* An update copied from create that keeps create's version 1.
SyncChange_update_version_one(item_type, item_id, version, data) ==
    [change_id |-> new_id,
     item_type |-> item_type,
     item_id   |-> item_id,
     operation |-> "Update",
     version   |-> 1,
     data      |-> data,
     timestamp |-> now,
     synced    |-> FALSE]

\* SyncChange::update
SyncChange_update(item_type, item_id, version, data) ==
    [change_id |-> new_id,
     item_type |-> item_type,
     item_id   |-> item_id,
     operation |-> "Update",
     version   |-> version,
     data      |-> data,
     timestamp |-> now,
     synced    |-> FALSE]

\* SyncChange::delete
SyncChange_delete(item_type, item_id, version) ==
    [change_id |-> new_id,
     item_type |-> item_type,
     item_id   |-> item_id,
     operation |-> "Delete",
     version   |-> version,
     data      |-> Null,
     timestamp |-> now,
     synced    |-> FALSE]

\* A mark_synced that flips the flag instead of setting it.
SyncChange_mark_synced_toggle(c) == [c EXCEPT !.synced = ~c.synced]

\* SyncChange::mark_synced
SyncChange_mark_synced(c) == [c EXCEPT !.synced = TRUE]

\* The records a mutator can build for one item with the three constructors.
NewChanges(item_type, item_id) ==
    {SyncChange_create(item_type, item_id, d) : d \in Payloads}
    \cup {SyncChange_update(item_type, item_id, v, d) : v \in Versions, d \in Payloads}
    \cup {SyncChange_delete(item_type, item_id, v) : v \in Versions}

\* ------------------------------------------------------- PendingChanges

\* A closure that compares the item id alone.
SameItemIdOnly(c, change) == c.item_id = change.item_id

\* The closure of push's retain, negated: c is a change for the same item.
SameItem(c, change) ==
    c.item_id = change.item_id /\ c.item_type = change.item_type

\* A push that forgets the dedup: the retain keeps every record.
PushRetainAll(q, change) == q

\* push, first statement: self.changes.retain(|c| !(same item)).
PushRetain(q, change) == SelectSeq(q, LAMBDA c : ~SameItem(c, change))

\* A capacity check that is off by one: len() > max_size.
PushIsFullOffByOne(q, max, change) == Len(PushRetain(q, change)) > max

\* A capacity check made before the dedup, on the queue as it was.
PushIsFullBeforeDedup(q, max, change) == Len(q) >= max

\* push, the capacity check: self.changes.len() >= self.max_size.
PushIsFull(q, max, change) == Len(PushRetain(q, change)) >= max

\* A push that appends before it checks the capacity.
PushChangesAppendFirst(q, max, change) == Append(PushRetain(q, change), change)

\* A push that makes room by evicting the oldest record when the queue is full.
PushChangesEvictOldest(q, max, change) ==
    IF PushIsFull(q, max, change) /\ PushRetain(q, change) # << >>
    THEN Append(Tail(PushRetain(q, change)), change)
    ELSE IF PushIsFull(q, max, change)
         THEN PushRetain(q, change)
         ELSE Append(PushRetain(q, change), change)

\* A push that overwrites the queued record of the item where it stands.
PushChangesInPlace(q, max, change) ==
    IF \E i \in 1..Len(q) : SameItem(q[i], change)
    THEN [i \in 1..Len(q) |-> IF SameItem(q[i], change) THEN change ELSE q[i]]
    ELSE IF PushIsFull(q, max, change)
         THEN PushRetain(q, change)
         ELSE Append(PushRetain(q, change), change)

\* push: the value of self.changes when the call returns.
PushChanges(q, max, change) ==
    IF PushIsFull(q, max, change)
    THEN PushRetain(q, change)
    ELSE Append(PushRetain(q, change), change)

\* push: the value returned.
PushResult(q, max, change) ==
    IF PushIsFull(q, max, change) THEN "QueueFull" ELSE "Ok"

\* drain: the value returned by std::mem::take(&mut self.changes).
DrainReturned(q) == q

\* A drain that clones the records and leaves them queued.
DrainChangesKept(q) == q

\* drain: what std::mem::take leaves in self.changes (Vec::default()).
DrainChanges(q) == << >>

\* A remove_synced whose retain keeps the synced records instead.
RemoveSyncedChangesInverted(q) == SelectSeq(q, LAMBDA c : c.synced)

\* remove_synced: self.changes.retain(|c| !c.synced).
RemoveSyncedChanges(q) == SelectSeq(q, LAMBDA c : ~c.synced)

\* A drain that takes the whole queue, std::mem::take(self), and so leaves the
\* derived default capacity behind.
DrainMaxSizeTaken(max) == 0

\* drain: std::mem::take(&mut self.changes) does not touch self.max_size.
DrainMaxSize(max) == max

\* PendingChanges::default(), derived: Vec::default() and usize::default().
PendingChanges_default == [changes |-> << >>, max_size |-> 0]

\* PendingChanges::is_empty
is_empty == changes = << >>

\* PendingChanges::len
len == Len(changes)

\* --------------------------------------------------------------- helpers

Range(s) == {s[i] : i \in 1..Len(s)}

Ids(s) == {s[i].change_id : i \in 1..Len(s)}

\* The number of records of s whose change id is id.
Count(s, id) == Cardinality({i \in 1..Len(s) : s[i].change_id = id})

\* The item a record is about.
ItemOf(c) == <<c.item_type, c.item_id>>

\* ------------------------------------------- the sync state of a collection

\* The largest pending_changes the model counts to.
MaxPending == 3

\* enum SyncStatus
SyncStatus == {"NotSynced", "Syncing", "Synced", "Failed", "Conflict", "Pending"}

\* SyncState::default(), derived, with impl Default for SyncStatus.
SyncState_default ==
    [last_synced_at  |-> None,
     status          |-> "NotSynced",
     remote_id       |-> None,
     version         |-> None,
     pending_changes |-> 0]

\* Collection::is_synced
Collection_is_synced(s) == s.status = "Synced"

\* Collection::has_pending_changes
Collection_has_pending_changes(s) ==
    s.pending_changes > 0 \/ s.status = "Pending"

\* Collection::mark_syncing
Collection_mark_syncing(s) == [s EXCEPT !.status = "Syncing"]

\* A mark_synced that leaves the counter of pending changes as it is.
Collection_mark_synced_keeps_pending(s, remote_id, version) ==
    [s EXCEPT !.status = "Synced",
              !.last_synced_at = Some(now),
              !.remote_id = Some(remote_id),
              !.version = Some(version)]

\* Collection::mark_synced
Collection_mark_synced(s, remote_id, version) ==
    [s EXCEPT !.status = "Synced",
              !.last_synced_at = Some(now),
              !.remote_id = Some(remote_id),
              !.version = Some(version),
              !.pending_changes = 0]

\* Collection::mark_sync_failed
Collection_mark_sync_failed(s) == [s EXCEPT !.status = "Failed"]

\* An increment that sets the status to Pending during a sync as well.
Collection_increment_pending_changes_always_pending(s) ==
    [s EXCEPT !.pending_changes = @ + 1, !.status = "Pending"]

\* An increment that sets the status and does not count.
Collection_increment_pending_changes_status_only(s) ==
    [s EXCEPT !.status = IF @ # "Syncing" THEN "Pending" ELSE @]

\* Collection::increment_pending_changes
Collection_increment_pending_changes(s) ==
    [s EXCEPT !.pending_changes = @ + 1,
              !.status = IF @ # "Syncing" THEN "Pending" ELSE @]

\* -------------------------------------------------------- initial state

\* PendingChanges::new(max_size), before any call.
Init ==
    /\ max_size \in 0..MaxCapacity
    /\ changes = << >>
    /\ next_id = 1
    /\ clock = 0
    /\ call = [op |-> "new", who |-> Syncer, arg |-> << >>, result |-> "none",
               returned |-> << >>, before |-> << >>]
    /\ last_ok = [p \in Items |-> 0]
    /\ ok_ids = {}
    /\ superseded = {}
    /\ delivered = [id \in 1..MaxChanges |-> 0]
    /\ removed = {}
    /\ session = None
    /\ config = None
    /\ reply = None
    /\ run = [phase |-> "Idle", drained |-> << >>, outcome |-> None]
    /\ sync_state = SyncState_default

\* --------------------------------------------------------------- actions

\* A mutator builds the record of an entity mutation and pushes it.
Push(m, change) ==
    /\ next_id <= MaxChanges
    /\ next_id' = next_id + 1
    /\ changes' = PushChanges(changes, max_size, change)
    /\ call' = [op |-> "push", who |-> m, arg |-> <<change>>,
                result |-> PushResult(changes, max_size, change),
                returned |-> << >>, before |-> changes]
    /\ IF call'.result = "Ok"
       THEN /\ last_ok' = [last_ok EXCEPT ![ItemOf(change)] = change.change_id]
            /\ ok_ids' = ok_ids \cup {change.change_id}
            /\ superseded' = superseded \cup
                   {c.change_id : c \in {d \in Range(changes) : SameItem(d, change)}}
       ELSE UNCHANGED <<last_ok, ok_ids, superseded>>
    /\ UNCHANGED <<max_size, clock, delivered, removed, others>>

\* The syncer takes every queued record.
Drain ==
    /\ changes' = DrainChanges(changes)
    /\ call' = [op |-> "drain", who |-> Syncer, arg |-> << >>, result |-> "none",
                returned |-> DrainReturned(changes), before |-> changes]
    /\ delivered' = [id \in 1..MaxChanges |->
                        delivered[id] + Count(call'.returned, id)]
    /\ max_size' = DrainMaxSize(max_size)
    /\ UNCHANGED <<next_id, clock, last_ok, ok_ids, superseded, removed, others>>

\* The syncer marks the i-th queued record as acknowledged.
MarkSynced(i) ==
    /\ i \in 1..Len(changes)
    /\ changes' = [changes EXCEPT ![i] = SyncChange_mark_synced(changes[i])]
    /\ call' = [op |-> "mark_synced", who |-> Syncer, arg |-> <<changes[i]>>,
                result |-> "none", returned |-> << >>, before |-> changes]
    /\ UNCHANGED <<max_size, next_id, clock, hist, others>>

\* The syncer deletes the acknowledged records.
RemoveSynced ==
    /\ changes' = RemoveSyncedChanges(changes)
    /\ call' = [op |-> "remove_synced", who |-> Syncer, arg |-> << >>,
                result |-> "none", returned |-> << >>, before |-> changes]
    /\ removed' = removed \cup (Ids(changes) \ Ids(changes'))
    /\ UNCHANGED <<max_size, next_id, clock, last_ok, ok_ids, superseded, delivered, others>>

PushAny ==
    \E m \in Mutators, item \in Items :
        \E change \in NewChanges(item[1], item[2]) : Push(m, change)

MarkAny == \E i \in 1..MaxCapacity : MarkSynced(i)

Next ==
    \/ PushAny
    \/ Drain
    \/ MarkAny
    \/ RemoveSynced

Spec == Init /\ [][Next]_vars

TypeOK ==
    /\ max_size \in 0..MaxCapacity
    /\ next_id \in 1..(MaxChanges + 1)
    /\ \A i \in 1..Len(changes) : changes[i].change_id \in 1..MaxChanges

\* ---------------------------------------------- the queue seen by item type

\* A for_item_type whose filter is negated.
for_item_type_negated(q, item_type) ==
    SelectSeq(q, LAMBDA c : c.item_type # item_type)

\* PendingChanges::for_item_type: iter().filter(|c| c.item_type == item_type).
for_item_type(q, item_type) ==
    SelectSeq(q, LAMBDA c : c.item_type = item_type)

\* The items pushed when the queue is read by item type: one of each type,
\* and a second request.
ViewItems == (SyncItemType \X {1}) \cup {<<"Request", 2>>}

\* A mutator records the creation of an item of any type.
PushView ==
    \E item \in ViewItems, d \in Payloads :
        Push("m1", SyncChange_create(item[1], item[2], d))

\* A caller reads the queued records of one item type (&self: no field changes).
ForItemType(item_type) ==
    /\ call' = [op |-> "for_item_type", who |-> Syncer, arg |-> << >>,
                result |-> "none", returned |-> for_item_type(changes, item_type),
                before |-> changes, item_type |-> item_type]
    /\ UNCHANGED <<changes, max_size, next_id, clock, hist, others>>

ForItemTypeAny == \E t \in SyncItemType : ForItemType(t)

NextView ==
    \/ PushView
    \/ ForItemTypeAny

SpecView == Init /\ [][NextView]_vars

\* ------------------------------------ every operation of PendingChanges

\* A mutator records the creation of an item.
PushCreate ==
    \E item \in Items, d \in Payloads :
        Push("m1", SyncChange_create(item[1], item[2], d))

NextQueue ==
    \/ PushCreate
    \/ Drain
    \/ MarkAny
    \/ RemoveSynced
    \/ ForItemTypeAny

SpecQueue == Init /\ [][NextQueue]_vars

\* ------------------------------------------------- building change records

\* Arguments handed to the constructors of SyncChange.
RecordItemIds == {1, 2}

RecordVersions == {-1, 1, 2}

RecordPayloads == {"p", "q"}

\* Time passes: a later now() reads a later or the same millisecond.
Tick ==
    /\ clock < MaxClock
    /\ clock' = clock + 1
    /\ UNCHANGED <<changes, max_size, next_id, call, hist, others>>

\* A caller builds a record with SyncChange::create.
BuildCreate(item_type, item_id, data) ==
    /\ next_id <= MaxChanges
    /\ next_id' = next_id + 1
    /\ reply' = Some([op |-> "create", input |-> <<item_type, item_id, data>>,
                      output |-> SyncChange_create(item_type, item_id, data)])
    /\ UNCHANGED <<changes, max_size, clock, call, hist, session, config, run, sync_state>>

\* A caller builds a record with SyncChange::update.
BuildUpdate(item_type, item_id, version, data) ==
    /\ next_id <= MaxChanges
    /\ next_id' = next_id + 1
    /\ reply' = Some([op |-> "update", input |-> <<item_type, item_id, version, data>>,
                      output |-> SyncChange_update(item_type, item_id, version, data)])
    /\ UNCHANGED <<changes, max_size, clock, call, hist, session, config, run, sync_state>>

\* A caller builds a record with SyncChange::delete.
BuildDelete(item_type, item_id, version) ==
    /\ next_id <= MaxChanges
    /\ next_id' = next_id + 1
    /\ reply' = Some([op |-> "delete", input |-> <<item_type, item_id, version>>,
                      output |-> SyncChange_delete(item_type, item_id, version)])
    /\ UNCHANGED <<changes, max_size, clock, call, hist, session, config, run, sync_state>>

BuildAny ==
    \E t \in SyncItemType, i \in RecordItemIds :
        \/ \E d \in RecordPayloads : BuildCreate(t, i, d)
        \/ \E v \in RecordVersions, d \in RecordPayloads : BuildUpdate(t, i, v, d)
        \/ \E v \in RecordVersions : BuildDelete(t, i, v)

NextRecord ==
    \/ BuildAny
    \/ Tick

SpecRecord == Init /\ [][NextRecord]_vars

\* ------------------------------------------------------------ SyncSession

\* SyncSession::new
SyncSession_new ==
    [session_id     |-> new_id,
     started_at     |-> now,
     changes_pushed |-> << >>,
     changes_pulled |-> << >>,
     conflicts      |-> << >>,
     completed_at   |-> None]

\* SyncSession::complete
SyncSession_complete(s) == [s EXCEPT !.completed_at = Some(now)]

\* An is_complete that tests is_none().
SyncSession_is_complete_inverted(s) == s.completed_at = None

\* SyncSession::is_complete: self.completed_at.is_some().
SyncSession_is_complete(s) == s.completed_at # None

\* A duration that measures a running session up to its start.
SyncSession_duration_running(s) ==
    IF s.completed_at = None
    THEN Some(s.started_at - s.started_at)
    ELSE Some(s.completed_at[1] - s.started_at)

\* SyncSession::duration: self.completed_at.map(|end| end - self.started_at).
SyncSession_duration(s) ==
    IF s.completed_at = None
    THEN None
    ELSE Some(s.completed_at[1] - s.started_at)

\* A caller starts a synchronization attempt.
SessionNew ==
    /\ next_id <= MaxChanges
    /\ next_id' = next_id + 1
    /\ session' = Some(SyncSession_new)
    /\ reply' = Some([op |-> "SyncSession::new", input |-> session,
                      output |-> session'])
    /\ UNCHANGED <<changes, max_size, clock, call, hist, config, run, sync_state>>

\* A caller marks the session complete (again, if it was already).
SessionComplete ==
    /\ session # None
    /\ session' = Some(SyncSession_complete(session[1]))
    /\ reply' = Some([op |-> "SyncSession::complete", input |-> session,
                      output |-> session'])
    /\ UNCHANGED <<changes, max_size, next_id, clock, call, hist, config, run, sync_state>>

NextSession ==
    \/ SessionNew
    \/ SessionComplete
    \/ Tick

SpecSession == Init /\ [][NextSession]_vars

\* ------------------------------------------------------ LocalSyncProvider

\* Result<T, SyncError>::Ok(v)
Ok(v) == <<"Ok", v>>

\* The unit value ().
Unit == "()"

\* SyncResult::Offline
Offline == [kind |-> "Offline"]

\* SyncResult::Success { timestamp, changes_pushed, changes_pulled }
Success(timestamp, pushed, pulled) ==
    [kind |-> "Success", timestamp |-> timestamp,
     changes_pushed |-> pushed, changes_pulled |-> pulled]

\* An authenticate that accepts every key but the empty one.
LocalSyncProvider_authenticate_nonempty(api_key) == Ok(api_key # "")

\* LocalSyncProvider::authenticate
LocalSyncProvider_authenticate(api_key) == Ok(TRUE)

\* A push_changes that reports the records it was given as pushed.
LocalSyncProvider_push_changes_counted(records) ==
    IF records = << >> THEN Ok(Offline) ELSE Ok(Success(now, Len(records), 0))

\* LocalSyncProvider::push_changes
LocalSyncProvider_push_changes(records) == Ok(Offline)

\* LocalSyncProvider::pull_changes
LocalSyncProvider_pull_changes(since) == Ok(<< >>)

\* LocalSyncProvider::resolve_conflicts
LocalSyncProvider_resolve_conflicts(resolutions) == Ok(Unit)

\* Lists of at most two elements of S.
UpToTwo(S) == {<< >>} \cup {<<a>> : a \in S} \cup {<<a, b>> : a \in S, b \in S}

\* Arguments handed to the provider: keys, records, timestamps, resolutions.
ApiKeys == {"", "test-key"}

SampleChanges == UNION {NewChanges(item[1], item[2]) : item \in Items}

SinceValues == {None} \cup {Some(t) : t \in 0..MaxClock}

\* struct ConflictResolution with enum ConflictChoice
SampleResolutions ==
    [conflict_id : {1, 2},
     resolution : {[kind |-> "Local"], [kind |-> "Remote"],
                   [kind |-> "Merged", value |-> "p"]}]

\* A caller asks the local provider to authenticate.
CallAuthenticate(api_key) ==
    /\ reply' = Some([op |-> "authenticate", input |-> api_key,
                      output |-> LocalSyncProvider_authenticate(api_key)])
    /\ UNCHANGED <<changes, max_size, next_id, clock, call, hist, session, config, run, sync_state>>

\* A caller hands the local provider records to push.
CallPushChanges(records) ==
    /\ reply' = Some([op |-> "push_changes", input |-> records,
                      output |-> LocalSyncProvider_push_changes(records)])
    /\ UNCHANGED <<changes, max_size, next_id, clock, call, hist, session, config, run, sync_state>>

\* A caller asks the local provider for the remote changes.
CallPullChanges(since) ==
    /\ reply' = Some([op |-> "pull_changes", input |-> since,
                      output |-> LocalSyncProvider_pull_changes(since)])
    /\ UNCHANGED <<changes, max_size, next_id, clock, call, hist, session, config, run, sync_state>>

\* A caller hands the local provider resolutions.
CallResolveConflicts(resolutions) ==
    /\ reply' = Some([op |-> "resolve_conflicts", input |-> resolutions,
                      output |-> LocalSyncProvider_resolve_conflicts(resolutions)])
    /\ UNCHANGED <<changes, max_size, next_id, clock, call, hist, session, config, run, sync_state>>

NextProvider ==
    \/ \E k \in ApiKeys : CallAuthenticate(k)
    \/ \E records \in UpToTwo(SampleChanges) : CallPushChanges(records)
    \/ \E since \in SinceValues : CallPullChanges(since)
    \/ \E resolutions \in UpToTwo(SampleResolutions) : CallResolveConflicts(resolutions)

SpecProvider == Init /\ [][NextProvider]_vars

\* ------------------------------------- a sync run with the local provider

\* A mutator records the creation of an item, before, during or after the run.
PushRun ==
    \E item \in Items, d \in Payloads :
        /\ Push("m1", SyncChange_create(item[1], item[2], d))

\* Created: the session is instantiated.
RunStart ==
    /\ run.phase = "Idle"
    /\ next_id <= MaxChanges
    /\ next_id' = next_id + 1
    /\ session' = Some(SyncSession_new)
    /\ run' = [run EXCEPT !.phase = "Created"]
    /\ UNCHANGED <<changes, max_size, clock, call, hist, config, reply, sync_state>>

\* Pushing: the queue is drained.
RunDrain ==
    /\ run.phase = "Created"
    /\ changes' = DrainChanges(changes)
    /\ call' = [op |-> "drain", who |-> Syncer, arg |-> << >>, result |-> "none",
                returned |-> DrainReturned(changes), before |-> changes]
    /\ delivered' = [id \in 1..MaxChanges |->
                        delivered[id] + Count(call'.returned, id)]
    /\ run' = [run EXCEPT !.phase = "Pushing", !.drained = DrainReturned(changes)]
    /\ UNCHANGED <<max_size, next_id, clock, last_ok, ok_ids, superseded, removed,
                   session, config, reply, sync_state>>

\* Pushing: the drained records are handed to the provider's push_changes; on
\* Success the pushed list is populated, on Offline nothing is recorded.
RunPush ==
    /\ run.phase = "Pushing"
    /\ reply' = Some([op |-> "push_changes", input |-> run.drained,
                      output |-> LocalSyncProvider_push_changes(run.drained)])
    /\ run' = [run EXCEPT !.phase = "Pushed", !.outcome = Some(reply'[1].output[2])]
    /\ session' = IF reply'[1].output[2].kind = "Success"
                  THEN Some([session[1] EXCEPT !.changes_pushed = run.drained])
                  ELSE session
    /\ UNCHANGED <<changes, max_size, next_id, clock, call, hist, config, sync_state>>

\* On the Offline result the session proceeds directly to Completed.
RunComplete ==
    /\ run.phase = "Pushed"
    /\ run.outcome # None /\ run.outcome[1].kind = "Offline"
    /\ session' = Some(SyncSession_complete(session[1]))
    /\ run' = [run EXCEPT !.phase = "Completed"]
    /\ UNCHANGED <<changes, max_size, next_id, clock, call, hist, config, reply, sync_state>>

\* The next step of a run that has started.
RunStep == RunDrain \/ RunPush \/ RunComplete

NextRun ==
    \/ PushRun
    \/ RunStart
    \/ RunDrain
    \/ RunPush
    \/ RunComplete
    \/ Tick

SpecOfflineRun == Init /\ [][NextRun]_vars

\* ------------------------------------------ a sync run with a remote provider

\* Result<T, SyncError>::Err(e)
Err(e) == <<"Err", e>>

\* SyncResult::Conflict { conflicts }
Conflict(conflicts) == [kind |-> "Conflict", conflicts |-> conflicts]

\* The triggers of a synchronization attempt: the caller, and the auto-sync timer.
Triggers == {"manual", "auto"}

\* The SyncError values that abort a session.
SessionErrors == {"AuthenticationFailed", "NetworkError"}

\* The versions, timestamps and payloads of the records the remote holds.
RemoteVersions == {1, 2}

RemoteTimestamps == {1}

RemotePayload == "r"

\* The record the remote holds for the item of a local record: a SyncChange
\* made on another device.
RemoteRecords(local) ==
    {[change_id |-> 0, item_type |-> local.item_type, item_id |-> local.item_id,
      operation |-> "Update", version |-> v, data |-> RemotePayload,
      timestamp |-> t, synced |-> TRUE] : v \in RemoteVersions, t \in RemoteTimestamps}

\* struct ConflictInfo, as the provider fills it for a local and a remote record.
ConflictInfo(local, remote) ==
    [conflict_id    |-> local.change_id,
     item_type      |-> local.item_type,
     item_id        |-> local.item_id,
     local_version  |-> local.version,
     remote_version |-> remote.version,
     local_value    |-> local.data,
     remote_value   |-> remote.data,
     created_at     |-> now]

\* A detection that reports every item the remote holds, whatever its version.
InConflictAlways(local, remote) == TRUE

\* The detection trigger of the provider: the versions differ.
InConflict(local, remote) == local.version # remote.version

\* The positions of the pushed records that are in conflict with the remote's.
Conflicting(records, remote) ==
    {i \in 1..Len(records) : InConflict(records[i], remote[i])}

\* The elements of s at the positions in P, in order.
AtPositions(s, P) ==
    LET kept == SelectSeq([i \in 1..Len(s) |-> <<i, s[i]>>], LAMBDA e : e[1] \in P)
    IN  [k \in 1..Len(kept) |-> kept[k][2]]

\* struct ConflictResolution
ConflictResolution(conflict_id, choice) ==
    [conflict_id |-> conflict_id, resolution |-> [kind |-> choice]]

\* A last-write-wins that prefers the greater version number.
LastWriteWinsByVersion(pair) ==
    IF pair[2].version > pair[1].version THEN "Remote" ELSE "Local"

\* ConflictStrategy::LastWriteWins: the later timestamp wins, ties favor local.
LastWriteWins(pair) ==
    IF pair[2].timestamp > pair[1].timestamp THEN "Remote" ELSE "Local"

\* A policy that resolves the first conflict only.
GenerateResolutionsFirstOnly(strategy, conflicts, pairs) ==
    IF strategy = "Manual" \/ conflicts = << >>
    THEN << >>
    ELSE <<ConflictResolution(conflicts[1].conflict_id,
               CASE strategy = "LocalWins"     -> "Local"
                 [] strategy = "RemoteWins"    -> "Remote"
                 [] strategy = "LastWriteWins" -> LastWriteWins(pairs[1]))>>

\* The resolution policy: the resolutions generated for the reported conflicts
\* under a strategy; pairs[i] is the local and the remote record of conflicts[i].
GenerateResolutions(strategy, conflicts, pairs) ==
    IF strategy = "Manual"
    THEN << >>
    ELSE [i \in 1..Len(conflicts) |->
             ConflictResolution(conflicts[i].conflict_id,
                 CASE strategy = "LocalWins"     -> "Local"
                   [] strategy = "RemoteWins"    -> "Remote"
                   [] strategy = "LastWriteWins" -> LastWriteWins(pairs[i]))]

\* -------------------------------------------------------------- SyncConfig

\* enum SyncMode
SyncMode == {"Offline", "OnlineAuto", "OnlineManual", "Hybrid"}

\* enum ConflictStrategy
ConflictStrategy == {"LocalWins", "RemoteWins", "LastWriteWins", "Manual"}

\* SyncConfig::online: auto_sync_interval: 300, // 5 minutes
OnlineAutoSyncInterval == 300

\* A default copied from online that keeps online's five-minute interval.
SyncConfig_default_with_interval ==
    [mode               |-> "Offline",
     server_url         |-> None,
     api_key            |-> None,
     device_id          |-> new_id,
     last_sync          |-> None,
     auto_sync_interval |-> OnlineAutoSyncInterval,
     conflict_strategy  |-> "LastWriteWins"]

\* impl Default for SyncConfig
SyncConfig_default ==
    [mode               |-> "Offline",
     server_url         |-> None,
     api_key            |-> None,
     device_id          |-> new_id,
     last_sync          |-> None,
     auto_sync_interval |-> 0,
     conflict_strategy  |-> "LastWriteWins"]

\* SyncConfig::offline
SyncConfig_offline == SyncConfig_default

\* SyncConfig::online
SyncConfig_online(server_url, api_key) ==
    [mode               |-> "OnlineAuto",
     server_url         |-> Some(server_url),
     api_key            |-> Some(api_key),
     device_id          |-> new_id,
     last_sync          |-> None,
     auto_sync_interval |-> OnlineAutoSyncInterval,
     conflict_strategy  |-> "LastWriteWins"]

\* An is_online whose pattern leaves out Hybrid.
SyncConfig_is_online_without_hybrid(c) == c.mode \in {"OnlineAuto", "OnlineManual"}

\* SyncConfig::is_online
SyncConfig_is_online(c) == c.mode \in {"OnlineAuto", "OnlineManual", "Hybrid"}

\* SyncConfig::auto_sync_enabled
SyncConfig_auto_sync_enabled(c) ==
    SyncConfig_is_online(c) /\ c.auto_sync_interval > 0

\* SyncConfig::mark_synced
SyncConfig_mark_synced(c) == [c EXCEPT !.last_sync = Some(now)]

\* A go_offline that switches the mode and keeps the server and the credential.
SyncConfig_go_offline_keeps_credential(c) == [c EXCEPT !.mode = "Offline"]

\* A go_offline that replaces the configuration by the offline one.
SyncConfig_go_offline_to_default(c) == SyncConfig_offline

\* SyncConfig::go_offline
SyncConfig_go_offline(c) ==
    [c EXCEPT !.mode = "Offline", !.server_url = None, !.api_key = None]

\* Values written to the public fields mode and auto_sync_interval.
AutoSyncIntervals == {0, 1, OnlineAutoSyncInterval}

\* The last call on the configuration: its name, the configuration before and after.
ConfigReply(name) == Some([op |-> name, input |-> config, output |-> config'])

\* The store builds the default configuration.
ConfigDefault ==
    /\ next_id <= MaxChanges
    /\ next_id' = next_id + 1
    /\ config' = Some(SyncConfig_default)
    /\ reply' = ConfigReply("SyncConfig::default")
    /\ UNCHANGED <<changes, max_size, clock, call, hist, session, run, sync_state>>

\* The store builds the offline configuration.
ConfigOffline ==
    /\ next_id <= MaxChanges
    /\ next_id' = next_id + 1
    /\ config' = Some(SyncConfig_offline)
    /\ reply' = ConfigReply("SyncConfig::offline")
    /\ UNCHANGED <<changes, max_size, clock, call, hist, session, run, sync_state>>

\* The user connects a server.
ConfigOnline(server_url, api_key) ==
    /\ next_id <= MaxChanges
    /\ next_id' = next_id + 1
    /\ config' = Some(SyncConfig_online(server_url, api_key))
    /\ reply' = ConfigReply("SyncConfig::online")
    /\ UNCHANGED <<changes, max_size, clock, call, hist, session, run, sync_state>>

\* The user switches the mode (pub mode).
ConfigSetMode(mode) ==
    /\ config # None
    /\ config' = Some([config[1] EXCEPT !.mode = mode])
    /\ reply' = ConfigReply("mode")
    /\ UNCHANGED <<changes, max_size, next_id, clock, call, hist, session, run, sync_state>>

\* The user sets the auto-sync interval (pub auto_sync_interval).
ConfigSetInterval(interval) ==
    /\ config # None
    /\ config' = Some([config[1] EXCEPT !.auto_sync_interval = interval])
    /\ reply' = ConfigReply("auto_sync_interval")
    /\ UNCHANGED <<changes, max_size, next_id, clock, call, hist, session, run, sync_state>>

\* The user picks a conflict strategy (pub conflict_strategy).
ConfigSetStrategy(strategy) ==
    /\ config # None
    /\ config' = Some([config[1] EXCEPT !.conflict_strategy = strategy])
    /\ reply' = ConfigReply("conflict_strategy")
    /\ UNCHANGED <<changes, max_size, next_id, clock, call, hist, session, run, sync_state>>

\* A sync has succeeded.
ConfigMarkSynced ==
    /\ config # None
    /\ config' = Some(SyncConfig_mark_synced(config[1]))
    /\ reply' = ConfigReply("SyncConfig::mark_synced")
    /\ UNCHANGED <<changes, max_size, next_id, clock, call, hist, session, run, sync_state>>

\* The user clears the server credentials.
ConfigGoOffline ==
    /\ config # None
    /\ config' = Some(SyncConfig_go_offline(config[1]))
    /\ reply' = ConfigReply("SyncConfig::go_offline")
    /\ UNCHANGED <<changes, max_size, next_id, clock, call, hist, session, run, sync_state>>

NextConfig ==
    \/ ConfigDefault
    \/ ConfigOffline
    \/ ConfigOnline("https://api.postboy.app", "test-key")
    \/ \E mode \in SyncMode : ConfigSetMode(mode)
    \/ \E interval \in AutoSyncIntervals : ConfigSetInterval(interval)
    \/ \E strategy \in ConflictStrategy : ConfigSetStrategy(strategy)
    \/ ConfigMarkSynced
    \/ ConfigGoOffline
    \/ Tick

SpecConfig == Init /\ [][NextConfig]_vars

\* ------------------------------------------------ the remote sync run, steps

\* What the remote may hold for each of the records pushed to it.
RemoteChoices(records) ==
    {remote \in [1..Len(records) -> UNION {RemoteRecords(records[i]) : i \in 1..Len(records)}] :
        \A i \in 1..Len(records) : remote[i] \in RemoteRecords(records[i])}

RECURSIVE RequeueChanges(_, _, _)
\* The queue after the records are pushed back one after the other.
RequeueChanges(q, max, records) ==
    IF records = << >>
    THEN q
    ELSE RequeueChanges(PushChanges(q, max, Head(records)), max, Tail(records))

RECURSIVE RequeueResults(_, _, _)
\* What each of these pushes returns.
RequeueResults(q, max, records) ==
    IF records = << >>
    THEN << >>
    ELSE <<PushResult(q, max, Head(records))>>
             \o RequeueResults(PushChanges(q, max, Head(records)), max, Tail(records))

\* A session is in flight: created and not complete.
SyncActive == session # None /\ ~SyncSession_is_complete(session[1])

\* The versions of the local records handed to a provider that detects conflicts.
LocalVersions == {1, 2}

\* The record of an update of an item made at time t, of which the queue
\* holds one per item.
LocalRecords(item, id) ==
    {[SyncChange_update(item[1], item[2], v, d) EXCEPT !.change_id = id, !.timestamp = t] :
        v \in LocalVersions, d \in Payloads, t \in 0..clock}

\* The drained lists handed to the provider: one record, or two of two items.
LocalLists ==
    {<<a>> : a \in UNION {LocalRecords(item, next_id) : item \in Items}}
    \cup {<<a, b>> : a \in LocalRecords(<<"Request", 1>>, next_id),
                     b \in UNION {LocalRecords(item, next_id + 1) :
                                      item \in Items \ {<<"Request", 1>>}}}

\* Pushing: the queue was drained of the records made so far.
SyncDrained(records) ==
    /\ run.phase = "Created"
    /\ next_id + Len(records) <= MaxChanges + 1
    /\ next_id' = next_id + Len(records)
    /\ run' = [run EXCEPT !.phase = "Pushing", !.drained = records]
    /\ UNCHANGED <<changes, max_size, clock, call, hist, session, config, reply, sync_state>>

\* A sync attempt that finds no session in flight starts one, with the
\* conflict strategy of the configuration.
SyncStart(trigger, strategy) ==
    /\ ~SyncActive
    /\ next_id <= MaxChanges
    /\ next_id' = next_id + 1
    /\ session' = Some(SyncSession_new)
    /\ run' = [phase |-> "Created", drained |-> << >>, outcome |-> None,
               strategy |-> strategy, remote |-> << >>, pairs |-> << >>,
               resolutions |-> << >>,
               unconfirmed |-> << >>, requeued |-> << >>]
    /\ reply' = Some([op |-> "sync", input |-> trigger, output |-> "Started"])
    /\ UNCHANGED <<changes, max_size, clock, call, hist, config, sync_state>>

\* A sync attempt that finds a session in flight is skipped.
SyncSkip(trigger) ==
    /\ SyncActive
    /\ reply' = Some([op |-> "sync", input |-> trigger, output |-> "Skipped"])
    /\ UNCHANGED <<changes, max_size, next_id, clock, call, hist, session, config, run, sync_state>>

\* Pushing: the queue is drained.
SyncDrain ==
    /\ run.phase = "Created"
    /\ changes' = DrainChanges(changes)
    /\ call' = [op |-> "drain", who |-> Syncer, arg |-> << >>, result |-> "none",
                returned |-> DrainReturned(changes), before |-> changes]
    /\ delivered' = [id \in 1..MaxChanges |->
                        delivered[id] + Count(call'.returned, id)]
    /\ run' = [run EXCEPT !.phase = "Pushing", !.drained = DrainReturned(changes)]
    /\ UNCHANGED <<max_size, next_id, clock, last_ok, ok_ids, superseded, removed,
                   session, config, reply, sync_state>>

\* Pushing: the provider takes the records; it reports Success when none is in
\* conflict with what the remote holds, and the conflicts otherwise.
SyncPush(remote) ==
    /\ run.phase = "Pushing"
    /\ LET P == Conflicting(run.drained, remote)
           conflicts == [k \in 1..Cardinality(P) |->
                            ConflictInfo(AtPositions(run.drained, P)[k],
                                         AtPositions(remote, P)[k])]
           pairs == [k \in 1..Cardinality(P) |->
                        <<AtPositions(run.drained, P)[k], AtPositions(remote, P)[k]>>]
       IN  IF P = {}
           THEN /\ session' = Some([session[1] EXCEPT !.changes_pushed = run.drained])
                /\ run' = [run EXCEPT !.phase = "Pulling", !.remote = remote,
                               !.outcome = Some(Ok(Success(now, Len(run.drained), 0)))]
           ELSE /\ session' = Some([session[1] EXCEPT !.conflicts = conflicts])
                /\ run' = [run EXCEPT !.phase = "Resolving", !.remote = remote,
                               !.pairs = pairs,
                               !.resolutions = << >>,
                               !.outcome = Some(Ok(Conflict(conflicts)))]
    /\ reply' = Some([op |-> "push_changes", input |-> run.drained,
                      output |-> run'.outcome[1]])
    /\ UNCHANGED <<changes, max_size, next_id, clock, call, hist, config, sync_state>>

SyncPushAny ==
    /\ run.phase = "Pushing"
    /\ \E remote \in RemoteChoices(run.drained) : SyncPush(remote)

\* Pushing: the provider confirms the records (the remote holds no other version).
SyncPushSuccess ==
    /\ run.phase = "Pushing"
    /\ session' = Some([session[1] EXCEPT !.changes_pushed = run.drained])
    /\ run' = [run EXCEPT !.phase = "Pulling",
                   !.outcome = Some(Ok(Success(now, Len(run.drained), 0)))]
    /\ reply' = Some([op |-> "push_changes", input |-> run.drained,
                      output |-> run'.outcome[1]])
    /\ UNCHANGED <<changes, max_size, next_id, clock, call, hist, config, sync_state>>

\* Pushing: the provider call fails or times out; no record is confirmed.
SyncPushFail(e) ==
    /\ run.phase = "Pushing"
    /\ run' = [run EXCEPT !.phase = "Failed", !.outcome = Some(Err(e)),
                   !.unconfirmed = run.drained]
    /\ reply' = Some([op |-> "push_changes", input |-> run.drained, output |-> Err(e)])
    /\ UNCHANGED <<changes, max_size, next_id, clock, call, hist, session, config, sync_state>>

\* Pulling: the provider returns the remote records (none here).
SyncPull ==
    /\ run.phase = "Pulling"
    /\ session' = Some([session[1] EXCEPT !.changes_pulled = << >>])
    /\ run' = [run EXCEPT !.phase = "Completing"]
    /\ reply' = Some([op |-> "pull_changes", input |-> None, output |-> Ok(<< >>)])
    /\ UNCHANGED <<changes, max_size, next_id, clock, call, hist, config, sync_state>>

\* Pulling: the provider call fails; the drained records were confirmed pushed.
SyncPullFail(e) ==
    /\ run.phase = "Pulling"
    /\ run' = [run EXCEPT !.phase = "Failed", !.outcome = Some(Err(e)),
                   !.unconfirmed = << >>]
    /\ reply' = Some([op |-> "pull_changes", input |-> None, output |-> Err(e)])
    /\ UNCHANGED <<changes, max_size, next_id, clock, call, hist, session, config, sync_state>>

\* Resolving: the policy generates the resolutions of the configured strategy;
\* under Manual it generates none and the session waits in the conflict state.
SyncGenerate ==
    /\ run.phase = "Resolving"
    /\ run' = [run EXCEPT
                   !.phase = IF run.strategy = "Manual" THEN "Conflict" ELSE "Resolved",
                   !.resolutions = GenerateResolutions(run.strategy,
                                       session[1].conflicts, run.pairs)]
    /\ reply' = Some([op |-> "generate_resolutions", input |-> session[1].conflicts,
                      output |-> run'.resolutions])
    /\ UNCHANGED <<changes, max_size, next_id, clock, call, hist, session, config, sync_state>>

\* The caller supplies a resolution for each conflict of a waiting session.
SyncSupply(choices) ==
    /\ run.phase = "Conflict"
    /\ run' = [run EXCEPT !.phase = "Resolved",
                   !.resolutions = [i \in 1..Len(session[1].conflicts) |->
                       ConflictResolution(session[1].conflicts[i].conflict_id, choices[i])]]
    /\ reply' = Some([op |-> "supply_resolutions", input |-> session[1].conflicts,
                      output |-> run'.resolutions])
    /\ UNCHANGED <<changes, max_size, next_id, clock, call, hist, session, config, sync_state>>

\* Resolving: the resolutions are applied via the provider, and the affected
\* pushes are attempted again.
SyncResolve ==
    /\ run.phase = "Resolved"
    /\ run' = [run EXCEPT !.phase = "Pushing"]
    /\ reply' = Some([op |-> "resolve_conflicts", input |-> run.resolutions,
                      output |-> Ok(Unit)])
    /\ UNCHANGED <<changes, max_size, next_id, clock, call, hist, session, config, sync_state>>

\* Failure: the records that were drained and not confirmed pushed are pushed
\* back into the queue, in their order.
SyncRequeue ==
    /\ run.phase = "Failed"
    /\ changes' = RequeueChanges(changes, max_size, run.unconfirmed)
    /\ run' = [run EXCEPT !.phase = "Requeued",
                   !.requeued = RequeueResults(changes, max_size, run.unconfirmed)]
    /\ UNCHANGED <<max_size, next_id, clock, call, hist, session, config, reply, sync_state>>

\* Completed: the session is marked complete, whatever the outcome.
SyncComplete ==
    /\ run.phase \in {"Completing", "Requeued"}
    /\ session' = Some(SyncSession_complete(session[1]))
    /\ run' = [run EXCEPT !.phase = "Completed"]
    /\ UNCHANGED <<changes, max_size, next_id, clock, call, hist, config, reply, sync_state>>

SyncSupplyAny ==
    /\ run.phase = "Conflict"
    /\ \E choices \in [1..Len(session[1].conflicts) -> {"Local", "Remote"}] :
           SyncSupply(choices)

\* Failures and single flight: a provider that confirms the push or fails.
NextSync ==
    \/ PushCreate
    \/ \E trigger \in Triggers : SyncStart(trigger, "LastWriteWins")
    \/ \E trigger \in Triggers : SyncSkip(trigger)
    \/ SyncDrain
    \/ SyncPushSuccess
    \/ \E e \in SessionErrors : SyncPushFail(e)
    \/ SyncPull
    \/ \E e \in SessionErrors : SyncPullFail(e)
    \/ SyncRequeue
    \/ SyncComplete

SpecSync == Init /\ [][NextSync]_vars

\* Time passes while the mutators work, before a run.
TickIdle == ~SyncActive /\ Tick

\* Conflicts: a provider that compares the pushed records with the remote's.
NextConflict ==
    \/ \E strategy \in ConflictStrategy : SyncStart("manual", strategy)
    \/ \E records \in LocalLists : SyncDrained(records)
    \/ SyncPushAny
    \/ SyncPull
    \/ SyncGenerate
    \/ SyncSupplyAny
    \/ SyncResolve
    \/ SyncComplete
    \/ TickIdle

SpecConflict == Init /\ [][NextConflict]_vars

\* ------------------------------------ the sync state of a collection, steps

\* Ids the server gives to a collection, and versions it reports.
RemoteIds == {1, 2}
CollectionVersions == {1, 2}

\* The sync states a stored collection can hold.
SyncStates ==
    [last_synced_at  : {None} \cup {Some(t) : t \in 0..MaxClock},
     status          : SyncStatus,
     remote_id       : {None} \cup {Some(id) : id \in RemoteIds},
     version         : {None} \cup {Some(v) : v \in CollectionVersions},
     pending_changes : 0..MaxPending]

\* The last call on the collection: its name, its arguments, the sync state
\* before and after.
CollectionReply(name, arg) ==
    Some([op |-> name, arg |-> arg, input |-> sync_state, output |-> sync_state'])

\* The sync layer starts to sync the collection.
CollectionMarkSyncing ==
    /\ sync_state' = Collection_mark_syncing(sync_state)
    /\ reply' = CollectionReply("Collection::mark_syncing", << >>)
    /\ UNCHANGED <<changes, max_size, next_id, clock, call, hist, session, config, run>>

\* The server has acknowledged the collection.
CollectionMarkSynced(remote_id, version) ==
    /\ sync_state' = Collection_mark_synced(sync_state, remote_id, version)
    /\ reply' = CollectionReply("Collection::mark_synced", <<remote_id, version>>)
    /\ UNCHANGED <<changes, max_size, next_id, clock, call, hist, session, config, run>>

\* The sync of the collection has failed.
CollectionMarkSyncFailed ==
    /\ sync_state' = Collection_mark_sync_failed(sync_state)
    /\ reply' = CollectionReply("Collection::mark_sync_failed", << >>)
    /\ UNCHANGED <<changes, max_size, next_id, clock, call, hist, session, config, run>>

\* A local edit of the collection is counted.
CollectionIncrementPendingChanges ==
    /\ sync_state.pending_changes < MaxPending
    /\ sync_state' = Collection_increment_pending_changes(sync_state)
    /\ reply' = CollectionReply("Collection::increment_pending_changes", << >>)
    /\ UNCHANGED <<changes, max_size, next_id, clock, call, hist, session, config, run>>

\* A stored collection is read back (derive Deserialize, pub sync_state)
\* before any method is called on it: the collection under observation holds
\* any sync state.
CollectionRestore(state) ==
    /\ reply = None
    /\ sync_state' = state
    /\ reply' = Some([op |-> "deserialize", arg |-> << >>,
                      input |-> state, output |-> state])
    /\ UNCHANGED <<changes, max_size, next_id, clock, call, hist, session, config, run>>

CollectionMarkSyncedAny ==
    \E remote_id \in RemoteIds, version \in CollectionVersions :
        CollectionMarkSynced(remote_id, version)

\* Collection::new and then the four methods that write the sync state.
NextCollection ==
    \/ CollectionMarkSyncing
    \/ CollectionMarkSyncedAny
    \/ CollectionMarkSyncFailed
    \/ CollectionIncrementPendingChanges
    \/ Tick

SpecCollection == Init /\ [][NextCollection]_vars

\* The four methods called on a collection in any sync state.
NextCollectionAny ==
    \/ \E state \in SyncStates : CollectionRestore(state)
    \/ CollectionMarkSyncing
    \/ CollectionMarkSyncedAny
    \/ CollectionMarkSyncFailed
    \/ CollectionIncrementPendingChanges
    \/ Tick

SpecCollectionAny == Init /\ [][NextCollectionAny]_vars

\* ---------------------------------------------------- reading the last call

\* The queue as it was when the last call was made.
Before == call.before

\* The record handed to the last call (a push, or a mark_synced).
Pushed == call.arg[1]

\* The last call was a push, and it returned r.
PushReturned(r) == call.op = "push" /\ call.result = r

\* The records of s that are about the item of c.
ForItem(s, c) == {i \in 1..Len(s) : SameItem(s[i], c)}

\* The records of s that are about another item than c's, in order.
OtherItems(s, c) == SelectSeq(s, LAMBDA d : ~SameItem(d, c))

\* The number of synced records among the first n of s.
SyncedUpTo(s, n) == Cardinality({i \in 1..n : s[i].synced})

\* ------------------------------------------------------------------ claims

\* C1: the queue holds at most one record per (item_id, item_type), and the
\* record held for an item is the one of the last push that returned Ok for
\* that item.
C1_OneRecordPerItemAndItIsTheLast ==
    /\ \A i, j \in 1..Len(changes) :
           SameItem(changes[i], changes[j]) => i = j
    /\ \A i \in 1..Len(changes) :
           changes[i].change_id = last_ok[ItemOf(changes[i])]

\* Create v1 then Update v2 for one item has left exactly one record: Update, version 2.
C1_Witness ==
    /\ PushReturned("Ok")
    /\ Len(Before) = 1
    /\ SameItem(Before[1], Pushed)
    /\ Before[1].operation = "Create" /\ Before[1].version = 1
    /\ Len(changes) = 1
    /\ changes[1].operation = "Update" /\ changes[1].version = 2

\* C2: len() <= max_size in every state of a queue built by new(max_size).
C2_LenAtMostMaxSize == len <= max_size

\* A push has filled a queue of capacity 2, and a further push was made.
C2_Witness ==
    /\ call.op = "push"
    /\ len = max_size /\ max_size >= 2
    /\ Len(Before) = max_size

\* C3: a push for an item that is not queued, into a queue that holds max_size
\* records, returns QueueFull and leaves the queue as it was.
C3_FullQueueRejectsNewItem ==
    (call.op = "push" /\ Len(Before) = max_size /\ ForItem(Before, Pushed) = {})
        => /\ call.result = "QueueFull"
           /\ len = max_size
           /\ changes = Before

\* Capacity 2 with two items queued: the push for a third item has failed.
C3_Witness ==
    /\ PushReturned("QueueFull")
    /\ max_size = 2 /\ Len(Before) = 2
    /\ ForItem(Before, Pushed) = {}
    /\ changes = Before

PushFailsOnlyForNewItem ==
    PushReturned("QueueFull") => ForItem(Before, Pushed) = {}

\* C5: the capacity check comes after the dedup: a push for an item that is
\* queued returns Ok and leaves the length as it was, also when the queue is full.
C5_EditOfQueuedItemNeverFull ==
    (call.op = "push" /\ ForItem(Before, Pushed) # {})
        => /\ call.result = "Ok"
           /\ len = Len(Before)
           /\ Cardinality(ForItem(changes, Pushed)) = 1

\* A full queue of capacity 2 has accepted an edit of one of its two items.
C5_Witness ==
    /\ PushReturned("Ok")
    /\ max_size = 2 /\ Len(Before) = max_size
    /\ ForItem(Before, Pushed) # {}
    /\ len = max_size

\* C6: push never evicts: the records of the other items are after the push
\* what they were before it, in the same order, whether it succeeds or fails.
C6_PushKeepsOtherItems ==
    call.op = "push" => OtherItems(changes, Pushed) = OtherItems(Before, Pushed)

\* A push has replaced the record of one item while another item was queued.
C6_Witness ==
    /\ PushReturned("Ok")
    /\ ForItem(Before, Pushed) # {}
    /\ OtherItems(Before, Pushed) # << >>
    /\ OtherItems(changes, Pushed) = OtherItems(Before, Pushed)

\* C7: drain returns the queued records in insertion order and leaves the queue
\* empty; a drain that follows a drain at once returns the empty list.
C7_DrainReturnsAllAndEmpties ==
    /\ [](call.op = "drain"
            => /\ call.returned = Before
               /\ \A i, j \in 1..Len(call.returned) :
                      i < j => call.returned[i].change_id < call.returned[j].change_id
               /\ is_empty /\ len = 0)
    /\ [][(call.op = "drain" /\ call'.op = "drain") => call'.returned = << >>]_vars

\* A drain has returned two records and emptied the queue.
C7_Witness ==
    /\ call.op = "drain"
    /\ Len(call.returned) = 2
    /\ is_empty

\* C8: a record whose push returned Ok is in the queue, or was returned by one
\* drain, or was superseded by a later push for its item, or was removed by
\* remove_synced; no record is returned by two drains, and none that a drain
\* returned is in the queue.
C8_NoLossNoDuplicateDelivery ==
    /\ \A id \in ok_ids :
           \/ id \in Ids(changes)
           \/ delivered[id] = 1
           \/ id \in superseded
           \/ id \in removed
    /\ \A id \in 1..MaxChanges : delivered[id] <= 1
    /\ \A id \in Ids(changes) : delivered[id] = 0

\* A drain has delivered a record and a push made after it is queued.
C8_Witness ==
    /\ \E id \in ok_ids : delivered[id] = 1
    /\ PushReturned("Ok")
    /\ Pushed.change_id \in Ids(changes) /\ delivered[Pushed.change_id] = 0

\* Two pushes made by two mutators, one right after the other.
TwoMutatorsPush ==
    /\ call.op = "push" /\ call'.op = "push"
    /\ call.who # call'.who

\* The two mutators push for the same item.
RaceForSameItem == TwoMutatorsPush /\ SameItem(call.arg[1], call'.arg[1])

\* The two mutators push for two different items, neither of them queued, into
\* a queue with one free slot.
RaceForLastSlot ==
    /\ TwoMutatorsPush
    /\ ~SameItem(call.arg[1], call'.arg[1])
    /\ ForItem(call.before, call.arg[1]) = {}
    /\ ForItem(call.before, call'.arg[1]) = {}
    /\ Len(call.before) = max_size - 1

\* Of two pushes for the last free slot exactly one returns Ok, and the
\* length stays within max_size.
OneWinsLastSlot ==
    RaceForLastSlot
        => /\ (call.result = "Ok") # (call'.result = "Ok")
           /\ Len(changes) <= max_size /\ Len(changes') <= max_size

\* C9 as stated: after two concurrent pushes for one item the queue holds
\* exactly one record for it; of two concurrent pushes for the last free slot
\* exactly one succeeds and len() stays within max_size.
C9_AsStated ==
    [][/\ RaceForSameItem => Cardinality(ForItem(changes', call'.arg[1])) = 1
       /\ OneWinsLastSlot]_vars

\* The first part of C9 as stated, for queues that can hold a record: it fails
\* as well, when the queue is full of records of other items.
C9_AsStatedWithRoomForOne ==
    [][(RaceForSameItem /\ max_size > 0)
           => Cardinality(ForItem(changes', call'.arg[1])) = 1]_vars

\* C9 as amended: after two concurrent pushes for one item the queue holds at
\* most one record for it, and exactly one when either push returned Ok (both
\* return QueueFull when the queue is full of other items); of two concurrent
\* pushes for the last free slot exactly one succeeds.
C9_ConcurrentPushesAreAtomic ==
    [][/\ RaceForSameItem
           => /\ Cardinality(ForItem(changes', call'.arg[1])) <= 1
              /\ Cardinality(ForItem(changes', call'.arg[1])) = 1
                     <=> (call.result = "Ok" \/ call'.result = "Ok")
       /\ OneWinsLastSlot]_vars

\* A second mutator has been refused the slot the first one took.
C9_Witness ==
    /\ PushReturned("QueueFull")
    /\ Before # << >>
    /\ Before[Len(Before)].change_id = Pushed.change_id - 1
    /\ ForItem(Before, Pushed) = {}
    /\ call.who = "m2"
    /\ max_size = 2

\* C10: remove_synced deletes the synced records and no other: the length
\* drops by their number, every unsynced record stays as it was and in the
\* same relative order, and no record left is synced.
C10_RemoveSyncedRemovesExactlySynced ==
    call.op = "remove_synced"
        => /\ len = Len(Before) - SyncedUpTo(Before, Len(Before))
           /\ \A i \in 1..Len(Before) :
                  ~Before[i].synced
                      => /\ i - SyncedUpTo(Before, i) \in 1..Len(changes)
                         /\ changes[i - SyncedUpTo(Before, i)] = Before[i]
           /\ \A i \in 1..Len(changes) : ~changes[i].synced

\* remove_synced has deleted the synced record of two and kept the other.
C10_Witness ==
    /\ call.op = "remove_synced"
    /\ Len(Before) = 2
    /\ Before[1].synced /\ ~Before[2].synced
    /\ changes = <<Before[2]>>

\* The number of records of item type t among the first n of s.
OfTypeUpTo(s, t, n) == Cardinality({i \in 1..n : s[i].item_type = t})

\* C11: for_item_type(t) leaves the queue as it was and returns the queued
\* records of item type t and no other, in queue order; the results for the
\* four item types partition the queue.
C11_ForItemTypeFiltersAndPartitions ==
    call.op = "for_item_type"
        => /\ changes = Before
           /\ \A i \in 1..Len(call.returned) :
                  call.returned[i].item_type = call.item_type
           /\ Len(call.returned) = OfTypeUpTo(changes, call.item_type, len)
           /\ \A j \in 1..len :
                  changes[j].item_type = call.item_type
                      => call.returned[OfTypeUpTo(changes, call.item_type, j)] = changes[j]
           /\ Len(for_item_type(changes, "Collection"))
                + Len(for_item_type(changes, "Folder"))
                + Len(for_item_type(changes, "Request"))
                + Len(for_item_type(changes, "Environment")) = len
           /\ \A j \in 1..len :
                  Cardinality({t \in SyncItemType :
                      changes[j] \in Range(for_item_type(changes, t))}) = 1

\* Of a folder and a request queued, for_item_type(Request) has returned the request.
C11_Witness ==
    /\ call.op = "for_item_type"
    /\ call.item_type = "Request"
    /\ len = 2
    /\ changes[1].item_type = "Folder"
    /\ call.returned = <<changes[2]>>

\* C12: the version of a record that push accepts is strictly greater than the
\* version of the records accepted earlier for the same item; stated here for
\* the earlier record that is still pending: the queue never replaces a
\* pending record by one with an equal or lower version.
C12_ReplacementHasGreaterVersion ==
    (PushReturned("Ok") /\ ForItem(Before, Pushed) # {})
        => \A i \in ForItem(Before, Pushed) : Pushed.version > Before[i].version

\* C13: every change record is created unsynced: create yields Create with
\* version 1, update yields Update with the version and the payload given,
\* delete yields Delete with a null payload; each is for the item given.
C13_ConstructorsBuildUnsyncedRecords ==
    reply # None
        => LET in == reply[1].input
               out == reply[1].output
           IN  /\ reply[1].op = "create"
                   => /\ out.operation = "Create" /\ out.version = 1
                      /\ out.data = in[3] /\ ~out.synced
                      /\ ItemOf(out) = <<in[1], in[2]>>
               /\ reply[1].op = "update"
                   => /\ out.operation = "Update" /\ out.version = in[3]
                      /\ out.data = in[4] /\ ~out.synced
                      /\ ItemOf(out) = <<in[1], in[2]>>
               /\ reply[1].op = "delete"
                   => /\ out.operation = "Delete" /\ out.data = Null
                      /\ out.version = in[3] /\ ~out.synced
                      /\ ItemOf(out) = <<in[1], in[2]>>

\* update has built the record of version 2 with payload q of a folder.
C13_Witness ==
    /\ reply # None
    /\ reply[1].op = "update"
    /\ reply[1].input = <<"Folder", 2, 2, "q">>
    /\ reply[1].output.version = 2 /\ reply[1].output.data = "q"
    /\ ~reply[1].output.synced

\* The last call was made on the session: its name and the session before it.
SessionCalled(name) == reply # None /\ reply[1].op = name

SessionBefore == reply[1].input[1]

\* C14: the completion timestamp is set once: a complete() on a session that
\* is complete leaves completed_at, and so duration(), as it was.
C14_CompletedAtSetOnce ==
    (SessionCalled("SyncSession::complete") /\ SyncSession_is_complete(SessionBefore))
        => /\ session[1].completed_at = SessionBefore.completed_at
           /\ SyncSession_duration(session[1]) = SyncSession_duration(SessionBefore)

\* C15: a completed session has completed_at > started_at and a duration > 0,
\* whatever the readings of a clock that never goes back.
C15_CompletedStrictlyAfterStart ==
    (session # None /\ SyncSession_is_complete(session[1]))
        => /\ session[1].completed_at[1] > session[1].started_at
           /\ SyncSession_duration(session[1])[1] > 0

\* C16: duration() is Some exactly when is_complete(): a new session is not
\* complete and has no duration, and after complete() the duration is
\* completed_at - started_at.
C16_DurationIffComplete ==
    session # None
        => /\ (SyncSession_duration(session[1]) # None)
                  <=> SyncSession_is_complete(session[1])
           /\ SessionCalled("SyncSession::new")
                  => /\ ~SyncSession_is_complete(session[1])
                     /\ SyncSession_duration(session[1]) = None
           /\ SessionCalled("SyncSession::complete")
                  => /\ SyncSession_is_complete(session[1])
                     /\ SyncSession_duration(session[1])
                            = Some(session[1].completed_at[1] - session[1].started_at)

\* A session started at 0 was completed at 2: its duration is 2.
C16_Witness ==
    /\ SessionCalled("SyncSession::complete")
    /\ session[1].started_at = 0
    /\ session[1].completed_at = Some(2)
    /\ SyncSession_duration(session[1]) = Some(2)

\* C17: Completed is terminal: a session that is complete is complete after
\* every later operation on it.
C17_CompletedIsTerminal ==
    [][(/\ session # None /\ session' # None
        /\ session'[1].session_id = session[1].session_id
        /\ SyncSession_is_complete(session[1]))
           => SyncSession_is_complete(session'[1])]_vars

\* complete() was called on a session that was complete, and it is complete.
C17_Witness ==
    /\ SessionCalled("SyncSession::complete")
    /\ SyncSession_is_complete(SessionBefore)
    /\ SyncSession_is_complete(session[1])

\* The local provider was last asked for name.
ProviderCalled(name) == reply # None /\ reply[1].op = name

\* C18: the local provider answers every call the same way whatever it is
\* given: authenticate Ok(true), push_changes Ok(Offline), pull_changes
\* Ok(empty list), resolve_conflicts Ok(()).
C18_LocalProviderIsTrivial ==
    /\ ProviderCalled("authenticate") => reply[1].output = <<"Ok", TRUE>>
    /\ ProviderCalled("push_changes")
           => /\ reply[1].output[1] = "Ok"
              /\ reply[1].output[2].kind = "Offline"
    /\ ProviderCalled("pull_changes") => reply[1].output = <<"Ok", << >> >>
    /\ ProviderCalled("resolve_conflicts") => reply[1].output = <<"Ok", "()">>

\* The local provider was handed two records to push and answered Offline.
C18_Witness ==
    /\ ProviderCalled("push_changes")
    /\ Len(reply[1].input) = 2
    /\ reply[1].output = <<"Ok", [kind |-> "Offline"]>>

\* C19: a sync run with the local provider reaches Completed (a run that has
\* started always has a next step until it is Completed) with an empty pushed
\* list, an empty pulled list, no conflict and the Offline outcome, whatever
\* the queue held.
C19_OfflineRunCompletesEmpty ==
    /\ run.phase \in {"Created", "Pushing", "Pushed"} => ENABLED RunStep
    /\ run.phase = "Pushed" => run.outcome[1].kind = "Offline"
    /\ run.phase = "Completed"
           => /\ SyncSession_is_complete(session[1])
              /\ session[1].changes_pushed = << >>
              /\ session[1].changes_pulled = << >>
              /\ session[1].conflicts = << >>
              /\ run.outcome[1].kind = "Offline"

\* A run that drained two records has completed with nothing pushed.
C19_Witness ==
    /\ run.phase = "Completed"
    /\ Len(run.drained) = 2
    /\ SyncSession_is_complete(session[1])
    /\ session[1].changes_pushed = << >>

\* The last call on the configuration was name.
ConfigCalled(name) == reply # None /\ reply[1].op = name

\* C20: auto_sync_enabled() is true exactly when the mode is OnlineAuto,
\* OnlineManual or Hybrid and auto_sync_interval > 0: false for every Offline
\* configuration and for every interval 0; SyncConfig::online(..) is online
\* with auto-sync enabled.
C20_AutoSyncEnabledIffOnlineAndInterval ==
    config # None
        => /\ config[1].mode = "Offline" => ~SyncConfig_auto_sync_enabled(config[1])
           /\ config[1].auto_sync_interval = 0 => ~SyncConfig_auto_sync_enabled(config[1])
           /\ \A mode \in {"OnlineAuto", "OnlineManual", "Hybrid"} :
                  (config[1].mode = mode /\ config[1].auto_sync_interval > 0)
                      => SyncConfig_auto_sync_enabled(config[1])
           /\ ConfigCalled("SyncConfig::online")
                  => /\ SyncConfig_is_online(config[1])
                     /\ SyncConfig_auto_sync_enabled(config[1])

\* A Hybrid configuration with interval 1 has auto-sync enabled.
C20_Witness ==
    /\ config # None
    /\ config[1].mode = "Hybrid"
    /\ config[1].auto_sync_interval = 1
    /\ SyncConfig_auto_sync_enabled(config[1])

\* C21: the initial configuration, built by SyncConfig::default() or
\* SyncConfig::offline(), has mode Offline, no server URL, no credential, no
\* last_sync and interval 0: is_online() and auto_sync_enabled() are false.
C21_InitialConfigIsOffline ==
    (ConfigCalled("SyncConfig::default") \/ ConfigCalled("SyncConfig::offline"))
        => /\ config[1].mode = "Offline"
           /\ config[1].server_url = None
           /\ config[1].api_key = None
           /\ config[1].last_sync = None
           /\ config[1].auto_sync_interval = 0
           /\ ~SyncConfig_is_online(config[1])
           /\ ~SyncConfig_auto_sync_enabled(config[1])

\* offline() has replaced an online configuration that had synced.
C21_Witness ==
    /\ ConfigCalled("SyncConfig::offline")
    /\ reply[1].input # None
    /\ SyncConfig_is_online(reply[1].input[1])
    /\ reply[1].input[1].last_sync # None
    /\ config[1].mode = "Offline" /\ config[1].last_sync = None

\* The configuration before the last call on it.
ConfigBefore == reply[1].input[1]

\* C22: from any configuration go_offline() yields mode Offline with
\* server_url and api_key cleared, so is_online() and auto_sync_enabled() are
\* false whatever auto_sync_interval is; a go_offline() on a configuration that
\* went offline changes nothing.
C22_GoOfflineClearsAndIsIdempotent ==
    ConfigCalled("SyncConfig::go_offline")
        => /\ config[1].mode = "Offline"
           /\ config[1].server_url = None
           /\ config[1].api_key = None
           /\ ~SyncConfig_is_online(config[1])
           /\ ~SyncConfig_auto_sync_enabled(config[1])
           /\ SyncConfig_go_offline(config[1]) = config[1]
           /\ (/\ ConfigBefore.mode = "Offline"
               /\ ConfigBefore.server_url = None
               /\ ConfigBefore.api_key = None) => config[1] = ConfigBefore

\* go_offline() on a Hybrid configuration with a server, a credential and the
\* five-minute interval: the interval stays and auto-sync is off.
C22_Witness ==
    /\ ConfigCalled("SyncConfig::go_offline")
    /\ ConfigBefore.mode = "Hybrid"
    /\ ConfigBefore.server_url # None /\ ConfigBefore.api_key # None
    /\ SyncConfig_auto_sync_enabled(ConfigBefore)
    /\ config[1].auto_sync_interval = OnlineAutoSyncInterval
    /\ ~SyncConfig_auto_sync_enabled(config[1])

\* The session under observation is in flight: created and not yet completed.
InFlight == session # None /\ session[1].completed_at = None

\* A sync attempt is made in this step.
Attempted == reply' # None /\ reply'[1].op = "sync" /\ reply' # reply

RunFailed ==
    /\ run.phase \in {"Requeued", "Completed"}
    /\ run.outcome # None
    /\ run.outcome[1][1] = "Err"

Generated == reply # None /\ reply[1].op = "generate_resolutions"

\* The choice of the i-th resolution generated.
Choice(i) == run.resolutions[i].resolution.kind

\* C25: under LastWriteWins the resolution of each conflict selects the side
\* whose record has the greater timestamp, whatever the two version numbers
\* are, and Local when the timestamps are equal: with the local timestamp
\* earlier than the remote one it is {conflict_id, Remote}.
C25_LastWriteWinsByTimestamp ==
    (Generated /\ run.strategy = "LastWriteWins")
        => /\ Len(run.resolutions) = Len(session[1].conflicts)
           /\ \A i \in 1..Len(run.resolutions) :
                  LET local == run.pairs[i][1]
                      remote == run.pairs[i][2]
                  IN  /\ run.resolutions[i].conflict_id = session[1].conflicts[i].conflict_id
                      /\ local.timestamp < remote.timestamp => Choice(i) = "Remote"
                      /\ local.timestamp > remote.timestamp => Choice(i) = "Local"
                      /\ local.timestamp = remote.timestamp => Choice(i) = "Local"

\* The local record has the greater version and the earlier timestamp: the
\* resolution is Remote.
C25_Witness ==
    /\ Generated /\ run.strategy = "LastWriteWins"
    /\ Len(run.resolutions) = 1
    /\ run.pairs[1][1].version > run.pairs[1][2].version
    /\ run.pairs[1][1].timestamp < run.pairs[1][2].timestamp
    /\ run.resolutions[1] = [conflict_id |-> session[1].conflicts[1].conflict_id,
                              resolution |-> [kind |-> "Remote"]]

\* Every conflict has the one resolution choice, and no other resolution is generated.
OneEach(choice) ==
    /\ Len(run.resolutions) = Len(session[1].conflicts)
    /\ \A i \in 1..Len(session[1].conflicts) :
           run.resolutions[i] = [conflict_id |-> session[1].conflicts[i].conflict_id,
                                 resolution |-> [kind |-> choice]]
    /\ \A i, j \in 1..Len(run.resolutions) :
           run.resolutions[i].conflict_id = run.resolutions[j].conflict_id => i = j

\* C26: when a push reports conflicts, LocalWins generates exactly one
\* resolution {conflict_id, Local} for every conflict and RemoteWins exactly
\* one {conflict_id, Remote}; Manual generates none, and the session stays in
\* flight in the conflict state until resolutions are supplied for it.
C26_StrategiesGenerateResolutions ==
    /\ []((Generated /\ run.strategy = "LocalWins") => OneEach("Local"))
    /\ []((Generated /\ run.strategy = "RemoteWins") => OneEach("Remote"))
    /\ []((Generated /\ run.strategy = "Manual")
             => /\ run.resolutions = << >>
                /\ run.phase = "Conflict"
                /\ session[1].conflicts # << >>
                /\ ~SyncSession_is_complete(session[1]))
    /\ [][run.phase = "Conflict"
             => \/ run'.phase = "Conflict" /\ session' = session
                \/ /\ run'.phase = "Resolved"
                   /\ reply'[1].op = "supply_resolutions"
                   /\ Len(run'.resolutions) = Len(session[1].conflicts)]_vars

\* A push reported two conflicts and LocalWins generated two keep-local resolutions.
C26_Witness ==
    /\ Generated /\ run.strategy = "LocalWins"
    /\ Len(session[1].conflicts) = 2
    /\ OneEach("Local")

\* The provider has just answered a push.
PushAnswered == reply # None /\ reply[1].op = "push_changes"

\* The conflicts the last push reported.
Reported ==
    IF run.outcome[1][2].kind = "Conflict" THEN run.outcome[1][2].conflicts ELSE << >>

\* The conflicts reported for the item of record c.
ConflictsFor(conflicts, c) ==
    {k \in 1..Len(conflicts) :
        conflicts[k].item_id = c.item_id /\ conflicts[k].item_type = c.item_type}

ById(s, id) == s[CHOOSE i \in 1..Len(s) : s[i].change_id = id]

\* The records that were queued before the last call and still are have the
\* synced flag they had.
QueuedFlagsKept ==
    \A id \in Ids(changes) \cap Ids(Before) :
        ById(changes, id).synced = ById(Before, id).synced

\* The records the last call returned have the synced flag they had in the queue.
ReturnedFlagsKept ==
    \A id \in Ids(call.returned) :
        ById(call.returned, id).synced = ById(Before, id).synced

\* C28: the synced flag is monotone: a record is pushed with the flag false
\* as constructed; mark_synced sets the flag of its record to true, also when
\* it was true, and leaves the other records alone; push, drain, remove_synced
\* and for_item_type leave the flag of every record, queued or returned, as it was.
C28_SyncedFlagIsMonotone ==
    /\ call.op = "push"
           => /\ ~Pushed.synced
              /\ Pushed.change_id \in Ids(changes)
                     => ~ById(changes, Pushed.change_id).synced
              /\ QueuedFlagsKept
    /\ call.op = "mark_synced"
           => /\ Ids(changes) = Ids(Before)
              /\ ById(changes, Pushed.change_id).synced
              /\ \A id \in Ids(changes) \ {Pushed.change_id} :
                     ById(changes, id).synced = ById(Before, id).synced
    /\ call.op \in {"drain", "remove_synced", "for_item_type"}
           => QueuedFlagsKept /\ ReturnedFlagsKept

\* mark_synced was called on a record that was synced, next to an unsynced
\* one: the first is still synced, the second still is not.
C28_Witness ==
    /\ call.op = "mark_synced"
    /\ Pushed.synced
    /\ len = 2
    /\ changes[1].synced /\ ~changes[2].synced
    /\ changes[1].change_id = Pushed.change_id

\* C29: a push that returns Ok leaves the new record at the tail: the queue
\* is the records of the other items, in their order, followed by the new
\* record, so an item that was queued loses its place; drain returns the
\* items in the order of their last successful push.
C29_PushAppendsAtTail ==
    /\ PushReturned("Ok")
           => /\ changes[len] = Pushed
              /\ changes = Append(OtherItems(Before, Pushed), Pushed)
    /\ call.op = "drain"
           => \A i, j \in 1..Len(call.returned) :
                  i < j => last_ok[ItemOf(call.returned[i])]
                               < last_ok[ItemOf(call.returned[j])]

\* The item at the head of a queue of two was pushed again and is now behind
\* the other.
C29_Witness ==
    /\ PushReturned("Ok")
    /\ Len(Before) = 2
    /\ SameItem(Before[1], Pushed)
    /\ changes = <<Before[2], Pushed>>

\* The records of s that have the item id of c and another item type.
SameIdOtherType(s, c) ==
    {i \in 1..Len(s) : s[i].item_id = c.item_id /\ s[i].item_type # c.item_type}

\* C30: the dedup key is the pair (item_id, item_type): a push leaves the
\* queued records that share the item id of the new record and have another
\* item type where they were, each counts towards the capacity (the push fails
\* when they fill the queue), and a push that succeeds next to them makes the
\* queue one longer.
C30_DedupKeyIsThePair ==
    (call.op = "push" /\ SameIdOtherType(Before, Pushed) # {})
        => /\ \A i \in SameIdOtherType(Before, Pushed) : Before[i] \in Range(changes)
           /\ (ForItem(Before, Pushed) = {} /\ Len(Before) = max_size)
                  => call.result = "QueueFull" /\ changes = Before
           /\ (ForItem(Before, Pushed) = {} /\ call.result = "Ok")
                  => len = Len(Before) + 1

\* Request 1 was pushed while Collection 1 was queued: both are queued.
C30_Witness ==
    /\ PushReturned("Ok")
    /\ Before # << >>
    /\ ItemOf(Before[1]) = <<"Collection", 1>>
    /\ ItemOf(Pushed) = <<"Request", 1>>
    /\ len = Len(Before) + 1
    /\ changes[1] = Before[1] /\ changes[len] = Pushed

\* C31: push, drain and remove_synced leave max_size as it is, so at any time,
\* also after a drain of a full queue, a push for an item with no queued record
\* returns Ok while fewer than max_size records are queued and QueueFull once
\* max_size records are queued.
C31_CapacityIsKept ==
    /\ [](call.op = "push" /\ ForItem(Before, Pushed) = {}
             => (PushReturned("Ok") <=> Len(Before) < max_size))
    /\ [][max_size' = max_size]_vars

\* A queue of capacity one was full and drained; it accepted one record again
\* and then answered QueueFull to a push for another item.
C31_Witness ==
    /\ max_size = 1
    /\ delivered[1] = 1
    /\ PushReturned("QueueFull")
    /\ Len(Before) = max_size /\ Before[1].change_id = 2
    /\ ForItem(Before, Pushed) = {}
    /\ changes = Before

\* C32: a queue whose max_size is 0, the capacity of PendingChanges::new(0) and
\* of PendingChanges::default(), answers QueueFull to every push and is empty
\* in every state.
C32_ZeroCapacityRejectsAll ==
    max_size = PendingChanges_default.max_size
        => /\ is_empty
           /\ ok_ids = {}
           /\ call.op = "push" => call.result = "QueueFull"
           /\ call.before = PendingChanges_default.changes

\* Three pushes into a queue of capacity zero: the third is rejected as the
\* first two were, and the queue is empty.
C32_Witness ==
    /\ max_size = 0
    /\ next_id = 4
    /\ PushReturned("QueueFull")
    /\ is_empty

\* The fields of SyncConfig that go_offline does not name.
KeptByGoOffline == {"device_id", "last_sync", "auto_sync_interval", "conflict_strategy"}

\* C33: go_offline() leaves device_id, last_sync, auto_sync_interval and
\* conflict_strategy as they were, so a configuration built by
\* SyncConfig::online and sent offline keeps the interval 300;
\* SyncConfig::mark_synced() leaves every field but last_sync as it was.
C33_GoOfflineAndMarkSyncedKeepTheRest ==
    /\ ConfigCalled("SyncConfig::go_offline")
           => \A f \in KeptByGoOffline : config[1][f] = ConfigBefore[f]
    /\ ConfigCalled("SyncConfig::mark_synced")
           => \A f \in (DOMAIN ConfigBefore) \ {"last_sync"} :
                  config[1][f] = ConfigBefore[f]

\* A configuration built by SyncConfig::online, given the Manual strategy and
\* marked synced, goes offline: interval 300, the strategy and the last sync
\* time are still there, where the offline configuration has 0 and no time.
C33_Witness ==
    /\ ConfigCalled("SyncConfig::go_offline")
    /\ ConfigBefore.mode = "OnlineAuto"
    /\ ConfigBefore.conflict_strategy = "Manual"
    /\ ConfigBefore.last_sync # None
    /\ config[1].auto_sync_interval = OnlineAutoSyncInterval
    /\ config[1].auto_sync_interval # SyncConfig_offline.auto_sync_interval
    /\ config[1].last_sync = ConfigBefore.last_sync
    /\ config[1].mode = "Offline"

\* The last call on the collection was the method name.
CollectionCalled(name) == reply # None /\ reply[1].op = name

\* The sync state before the last call on the collection.
SyncStateBefore == reply[1].input

\* C34: increment_pending_changes() adds exactly one to pending_changes and
\* sets the status to Pending, except that a status of Syncing stays Syncing;
\* has_pending_changes() is true after the call.
C34_IncrementCountsAndFlagsPending ==
    CollectionCalled("Collection::increment_pending_changes")
        => /\ sync_state.pending_changes = SyncStateBefore.pending_changes + 1
           /\ sync_state.status =
                  IF SyncStateBefore.status = "Syncing" THEN "Syncing" ELSE "Pending"
           /\ Collection_has_pending_changes(sync_state)

\* An edit is counted while the collection is syncing: the second pending
\* change, and the status is still Syncing.
C34_Witness ==
    /\ CollectionCalled("Collection::increment_pending_changes")
    /\ SyncStateBefore.status = "Syncing"
    /\ SyncStateBefore.pending_changes = 1
    /\ sync_state.status = "Syncing"
    /\ sync_state.pending_changes = 2

\* C35: from any sync state mark_synced(remote_id, version) yields status
\* Synced, pending_changes 0 and the remote id and version it was given, so
\* is_synced() is true and has_pending_changes() is false, also when changes
\* were counted while the status was Syncing.
C35_MarkSyncedClearsPending ==
    CollectionCalled("Collection::mark_synced")
        => /\ sync_state.status = "Synced"
           /\ sync_state.pending_changes = 0
           /\ sync_state.remote_id = Some(reply[1].arg[1])
           /\ sync_state.version = Some(reply[1].arg[2])
           /\ Collection_is_synced(sync_state)
           /\ ~Collection_has_pending_changes(sync_state)

\* mark_synced on a collection that was Syncing with pending changes counted
\* and that carried another remote id.
C35_Witness ==
    /\ CollectionCalled("Collection::mark_synced")
    /\ SyncStateBefore.status = "Syncing"
    /\ SyncStateBefore.pending_changes > 0
    /\ SyncStateBefore.remote_id # None
    /\ SyncStateBefore.remote_id # sync_state.remote_id
    /\ sync_state.pending_changes = 0

\* C36: in every sync state reached from Collection::new by mark_syncing,
\* mark_synced, mark_sync_failed and increment_pending_changes, a status of
\* Pending comes with pending_changes > 0 and a status of Synced with
\* pending_changes = 0.
C36_StatusAgreesWithCounter ==
    /\ sync_state.status = "Pending" => sync_state.pending_changes > 0
    /\ sync_state.status = "Synced" => sync_state.pending_changes = 0

\* A collection that was synced and then edited twice is Pending with two
\* pending changes.
C36_Witness ==
    /\ sync_state.status = "Pending"
    /\ sync_state.pending_changes = 2
    /\ sync_state.last_synced_at # None

====
